---- MODULE Spec2Model ----
(***************************************************************************)
(* Bastion Manager (Foundry VTT module for dnd5e).                         *)
(*                                                                         *)
(* The model follows src/scripts/module.mjs (the game.bastionManager       *)
(* registry and its settings accessors), src/scripts/bastion-detail.mjs    *)
(* (the detail view: facility slots, occupant slots) and                   *)
(* src/scripts/bastion-overview.mjs (the overview cards).                  *)
(*                                                                         *)
(* JavaScript values are modelled as follows.  `undefined` in a numeric    *)
(* or object position is the empty sequence <<>> and a present value v is  *)
(* <<v>>; `null` in a string position is the string NULL; the result of    *)
(* canViewBastion, which can be true, false or undefined, is one of the    *)
(* strings JsTrue, JsFalse, JsUndefined.                                   *)
(***************************************************************************)
EXTENDS Integers, Sequences, FiniteSets, TLC

VARIABLES
    advancement,        \* CONFIG.DND5E.facilities.advancement
    actors,             \* game.actors: actor id -> actor document
    gameUser,           \* game.user.id, the user of this client
    buildingOverrides,  \* world setting 'buildingOverrides'
    visibilitySettings, \* world setting 'visibilitySettings'
    enabledBastions,    \* world setting 'enabledBastions'
    facilities,         \* actor id -> last result of _prepareFacilitiesContext
    bastions,           \* last result of _prepareBastionsContext
    occupantData,       \* the occupant record handed to _prepareOccupants
    resolvable,         \* the uuids fromUuid resolves to a document
    occupants,          \* last result of _prepareOccupants
    viewCall,           \* last canViewBastion call: arguments and result
    bastionData,        \* world setting 'bastionData'
    event,              \* the last handler run: its name, user, writes, notice
    detailApps,         \* game.bastionManager.detailApps: actor id -> window
    windows,            \* the BastionDetail instances created on this client
    inFlight            \* the facility.update requests issued by occupant drops

vars == <<advancement, actors, gameUser, buildingOverrides, visibilitySettings,
          enabledBastions, facilities, bastions, occupantData, resolvable,
          occupants, viewCall, bastionData, event, detailApps, windows,
          inFlight>>

----------------------------------------------------------------------------
(* Bounds of the model *)

MaxLevel == 3
MaxSlots == 1
MaxOverride == 1
MaxCapacity == 3
MaxRefs == 3

(* The level keys an advancement table may carry, the facility documents an
   actor may hold, the actors and the users of the world. *)
TableKeys == [basic |-> {1}, special |-> {1, 3}]
ItemIds == <<"f1", "f2">>
ActorOrder == <<"a1", "a2">>
ActorIds == {ActorOrder[i] : i \in 1..Len(ActorOrder)}
FocusActorIds == {"a1"}
UserIds == {"gm", "u1", "u2"}
GMs == {"gm"}
UnknownUserId == "ghost"
Uuids == {"uuid-A", "uuid-B"}

NULL == "null"
JsTrue == "true"
JsFalse == "false"
JsUndefined == "undefined"

Types == {"basic", "special"}
Levels == 0..MaxLevel

Max(a, b) == IF a >= b THEN a ELSE b

(* Array.prototype.reverse *)
Reverse(s) == [i \in 1..Len(s) |-> s[Len(s) + 1 - i]]

----------------------------------------------------------------------------
(* game.users and document ownership (host) *)

UserExists(userId) == userId \in UserIds

UserIsGM(userId) == userId \in GMs

(* actor.isOwner: the CURRENT user's ownership of the document.  A GM owns
   every document; another user owns it when its own ownership entry, or the
   default one in its absence, is OWNER. *)
TestUserOwner(actor, userId) ==
    \/ UserIsGM(userId)
    \/ IF userId \in DOMAIN actor.ownership
       THEN actor.ownership[userId] = "OWNER"
       ELSE actor.ownership["default"] = "OWNER"

IsOwner(actor) == TestUserOwner(actor, gameUser)

----------------------------------------------------------------------------
(* module.mjs: settings accessors *)

(* getBuildingOverrides *)
GetBuildingOverrides(actorId) ==
    IF actorId \in DOMAIN buildingOverrides
    THEN buildingOverrides[actorId]
    ELSE [basic |-> 0, special |-> 0]

(* isBastionEnabled: enabled unless explicitly disabled *)
IsBastionEnabled(actorId) ==
    ~(actorId \in DOMAIN enabledBastions /\ enabledBastions[actorId] = FALSE)

(* `visibility[actorId] || {}`: an absent entry reads as an object with
   neither field, here public FALSE and users undefined. *)
ActorVisibility(actorId) ==
    IF actorId \in DOMAIN visibilitySettings
    THEN visibilitySettings[actorId]
    ELSE [public |-> FALSE, users |-> <<>>]

(* `actorVisibility.users?.includes(userId)` *)
UsersIncludes(actorVisibility, userId) ==
    IF actorVisibility.users = <<>> THEN JsUndefined
    ELSE IF userId \in actorVisibility.users[1] THEN JsTrue ELSE JsFalse

(* a predicate whose GM test looks at the current user, not at userId *)
CanViewAsCurrentUser(actorId, userId) ==
    IF UserIsGM(gameUser) THEN JsTrue
    ELSE IF actorId \in DOMAIN actors /\ IsOwner(actors[actorId]) THEN JsTrue
    ELSE IF ActorVisibility(actorId).public THEN JsTrue
    ELSE UsersIncludes(ActorVisibility(actorId), userId)

(* canViewBastion(actorId, userId) *)
CanViewBastion(actorId, userId) ==
    IF UserExists(userId) /\ UserIsGM(userId) THEN JsTrue
    ELSE IF actorId \in DOMAIN actors /\ IsOwner(actors[actorId]) THEN JsTrue
    ELSE IF ActorVisibility(actorId).public THEN JsTrue
    ELSE UsersIncludes(ActorVisibility(actorId), userId)

----------------------------------------------------------------------------
(* The advancement lookup shared by the detail view and the overview *)

(* Object.entries of an object with integer keys: ascending key order *)
RECURSIVE ObjectEntries(_)
ObjectEntries(config) ==
    IF DOMAIN config = {} THEN <<>>
    ELSE LET k == CHOOSE x \in DOMAIN config : \A y \in DOMAIN config : x <= y
         IN  <<<<k, config[k]>>>>
             \o ObjectEntries([y \in (DOMAIN config) \ {k} |-> config[y]])

----------------------------------------------------------------------------
(* bastion-detail.mjs: _prepareFacilitiesContext *)

(* a lookup by exact level: ([lvl]) => Number(lvl) === level *)
ExactLevelReached(lvl, level) == lvl = level

(* the predicate of find: ([lvl]) => Number(lvl) <= level *)
LevelReached(lvl, level) == lvl <= level

(* const [, baseAvailable] = Object.entries(config).reverse().find(...) || [];
   then (baseAvailable || 0): find answers the first entry that passes *)
BaseAvailable(config, level) ==
    LET passing == SelectSeq(Reverse(ObjectEntries(config)),
                             LAMBDA e : LevelReached(e[1], level))
    IN  IF passing = <<>> THEN 0 ELSE Head(passing)[2]

(* actor.system.details?.level || 1 : a level of 0 reads as 1 *)
LevelOrOne(actor) == IF actor.level = 0 THEN 1 ELSE actor.level

(* actor.itemTypes.facility, in collection order *)
FacilityItems(actor) ==
    LET present == SelectSeq(ItemIds, LAMBDA id : id \in DOMAIN actor.items)
    IN  [i \in 1..Len(present) |->
            [id |-> present[i],
             type |-> actor.items[present[i]].type,
             free |-> actor.items[present[i]].free]]

(* _prepareFacilityContext, the fields the slot computation reads *)
FacilityContext(facility) ==
    [id |-> facility.id,
     isSpecial |-> (facility.type = "special"),
     free |-> facility.free]

(* the two chosen lists: special facilities, and every other facility *)
Chosen(actor, type) ==
    LET facilityItems == FacilityItems(actor)
        ctxs == [i \in 1..Len(facilityItems) |-> FacilityContext(facilityItems[i])]
    IN  IF type = "special"
        THEN SelectSeq(ctxs, LAMBDA c : c.isSpecial)
        ELSE SelectSeq(ctxs, LAMBDA c : ~c.isSpecial)

(* free facilities left out of the count for both categories: f => !f.free *)
NonFreeCountsAsCurrent(type, f) == ~f.free

(* the filter of `current`: f => (type === 'basic') || !f.free *)
CountsAsCurrent(type, f) == (type = "basic") \/ ~f.free

(* type === 'basic' ? (overrides.basic || 0) : (overrides.special || 0) *)
OverrideOf(type, overrides) ==
    IF type = "basic" THEN overrides.basic ELSE overrides.special

(* the operands exchanged: Math.max(0, current - totalAvailable) *)
SwappedRemaining(totalAvailable, current) == Max(0, current - totalAvailable)

(* Math.max(0, totalAvailable - current) *)
Remaining(totalAvailable, current) == Max(0, totalAvailable - current)

(* one iteration of the loop over Object.entries(advancement) *)
TypeContext(type, actor, level, overrides) ==
    LET chosen == Chosen(actor, type)
        totalAvailable == BaseAvailable(advancement[type], level)
                          + OverrideOf(type, overrides)
        current == Len(SelectSeq(chosen, LAMBDA f : CountsAsCurrent(type, f)))
        remaining == Remaining(totalAvailable, current)
    IN  [chosen |-> chosen,
         value |-> current,
         max |-> totalAvailable,
         override |-> OverrideOf(type, overrides),
         available |-> [i \in 1..remaining |-> [type |-> type, label |-> "free"]]]

(* the build slot never pushed *)
WithoutBuildSlot(basic) == basic

(* "Basic facilities always have at least one build slot" *)
WithBuildSlot(basic) ==
    IF Len(basic.available) = 0
    THEN [basic EXCEPT !.available = Append(@, [type |-> "basic", label |-> "build"])]
    ELSE basic

(* _prepareFacilitiesContext once this.actor is known to exist *)
ActorFacilities(actorId, actor) ==
    LET level == LevelOrOne(actor)
        overrides == GetBuildingOverrides(actorId)
    IN  [basic |-> WithBuildSlot(TypeContext("basic", actor, level, overrides)),
         special |-> TypeContext("special", actor, level, overrides)]

(* the value _prepareFacilitiesContext returns for the view of actorId *)
FacilitiesContext(actorId) ==
    IF actorId \notin DOMAIN actors
    THEN [basic |-> [chosen |-> <<>>, available |-> <<>>],
          special |-> [chosen |-> <<>>, available |-> <<>>]]
    ELSE ActorFacilities(actorId, actors[actorId])

----------------------------------------------------------------------------
(* bastion-detail.mjs: _prepareOccupants *)

(* occupantData.max || 0 *)
MaxOrZero(data) == IF data.max = <<>> THEN 0 ELSE data.max[1]

(* occupantData.value || [] *)
ValueOrEmpty(data) == IF data.value = <<>> THEN <<>> ELSE data.value[1]

(* the array read one position too far: uuids[i + 1] *)
UuidAfter(uuids, i) == IF i + 2 <= Len(uuids) THEN uuids[i + 2] ELSE NULL

(* uuids[i], 0-based: undefined past the end of the array *)
UuidAt(uuids, i) == IF i + 1 <= Len(uuids) THEN uuids[i + 1] ELSE NULL

(* await fromUuid(uuid): the document (here its uuid), or null when the
   world `docs` no longer holds it *)
FromUuid(uuid, docs) == IF uuid \in docs THEN uuid ELSE NULL

(* a slot with a uuid never marked empty: empty: false *)
NeverEmptySlot(i, uuid, actor) ==
    [index |-> i, uuid |-> uuid, actor |-> actor, empty |-> FALSE]

(* the slot pushed for a present uuid once fromUuid has answered `actor` *)
FilledSlot(i, uuid, actor) ==
    [index |-> i, uuid |-> uuid, actor |-> actor, empty |-> (actor = NULL)]

(* the body of the loop for index i *)
OccupantSlot(uuids, i, docs) ==
    LET uuid == UuidAt(uuids, i)
    IN  IF uuid # NULL
        THEN FilledSlot(i, uuid, FromUuid(uuid, docs))
        ELSE [index |-> i, uuid |-> NULL, actor |-> NULL, empty |-> TRUE]

(* if (!occupantData?.value?.length && !occupantData?.max) return []; *)
NothingToShow(data) ==
    \/ data = <<>>
    \/ /\ Len(ValueOrEmpty(data[1])) = 0
       /\ MaxOrZero(data[1]) = 0

(* the loop bounded by the reference list: i < uuids.length *)
RefCountBound(data) == Len(ValueOrEmpty(data))

(* for (let i = 0; i < max; i++) *)
LoopBound(data) == MaxOrZero(data)

(* the build abandoned at the first reference that does not resolve *)
StopAtUnresolved(data, docs) ==
    IF NothingToShow(data) THEN <<>>
    ELSE LET uuids == ValueOrEmpty(data[1])
             bad == {k \in 1..LoopBound(data[1]) :
                        UuidAt(uuids, k - 1) # NULL
                        /\ FromUuid(UuidAt(uuids, k - 1), docs) = NULL}
             last == IF bad = {} THEN LoopBound(data[1])
                     ELSE (CHOOSE k \in bad : \A j \in bad : k <= j) - 1
         IN  [k \in 1..last |-> OccupantSlot(uuids, k - 1, docs)]

(* _prepareOccupants(occupantData), fromUuid resolving the uuids of `docs` *)
PrepareOccupants(data, docs) ==
    IF NothingToShow(data) THEN <<>>
    ELSE [k \in 1..LoopBound(data[1]) |->
             OccupantSlot(ValueOrEmpty(data[1]), k - 1, docs)]

----------------------------------------------------------------------------
(* bastion-overview.mjs: _isPlayerClaimed and _prepareBastionsContext *)

(* a test that takes every explicit OWNER entry, whoever it names *)
ClaimedByAnyEntry(actor) ==
    \E userId \in (DOMAIN actor.ownership) \ {"default"} :
        actor.ownership[userId] = "OWNER"

(* _isPlayerClaimed *)
IsPlayerClaimed(actor) ==
    \E userId \in (DOMAIN actor.ownership) \ {"default"} :
        /\ UserExists(userId)
        /\ ~UserIsGM(userId)
        /\ actor.ownership[userId] = "OWNER"

(* the filter over game.actors *)
IsListedCharacter(actorId) ==
    /\ actors[actorId].type = "character"
    /\ IsPlayerClaimed(actors[actorId])
    /\ IsBastionEnabled(actorId)

(* the predicate of find in the overview: ([lvl]) => Number(lvl) <= level *)
OverviewLevelReached(lvl, level) == lvl <= level

(* const [, available] = Object.entries(config).reverse().find(...) || [];
   then (available || 0) *)
OverviewAvailable(config, level) ==
    LET passing == SelectSeq(Reverse(ObjectEntries(config)),
                             LAMBDA e : OverviewLevelReached(e[1], level))
    IN  IF passing = <<>> THEN 0 ELSE Head(passing)[2]

(* the entry pushed for one viewable character *)
BastionCard(actorId) ==
    LET actor == actors[actorId]
        visibility == ActorVisibility(actorId)
        items == FacilityItems(actor)
        overrides == GetBuildingOverrides(actorId)
        level == LevelOrOne(actor)
    IN  [actorId |-> actorId,
         isOwner |-> IsOwner(actor),
         canEdit |-> (IsOwner(actor) \/ UserIsGM(gameUser)),
         isPublic |-> visibility.public,
         sharedWith |-> IF visibility.users = <<>> THEN 0
                        ELSE Cardinality(visibility.users[1]),
         basicCount |-> Len(SelectSeq(items, LAMBDA f : f.type = "basic")),
         basicMax |-> OverviewAvailable(advancement["basic"], level) + overrides.basic,
         specialCount |-> Len(SelectSeq(items, LAMBDA f : f.type = "special")),
         specialMax |-> OverviewAvailable(advancement["special"], level)
                        + overrides.special,
         totalFacilities |-> Len(items)]

BastionsContext ==
    LET shown == SelectSeq(ActorOrder,
                     LAMBDA id : /\ id \in DOMAIN actors
                                 /\ IsListedCharacter(id)
                                 /\ CanViewBastion(id, gameUser) = JsTrue)
    IN  [i \in 1..Len(shown) |-> BastionCard(shown[i])]

----------------------------------------------------------------------------
(* The values the inputs range over *)

(* level-keyed tables of one category *)
Tables(type) == UNION {[K -> 0..MaxSlots] : K \in SUBSET TableKeys[type]}

AdvancementTables ==
    {[basic |-> b, special |-> s] : b \in Tables("basic"), s \in Tables("special")}

(* the facility items an actor may hold, by item id *)
ItemSets ==
    UNION {[I -> [type : Types, free : BOOLEAN]] :
               I \in SUBSET {ItemIds[i] : i \in 1..Len(ItemIds)}}

OverrideRecords == [basic : 0..MaxOverride, special : 0..MaxOverride]

OverrideStores == UNION {[A -> OverrideRecords] : A \in SUBSET FocusActorIds}

(* ownership: a default level and, optionally, one level per user *)
Ownerships ==
    UNION {[O \cup {"default"} -> {"NONE", "OWNER"}] : O \in SUBSET (UserIds \ GMs)}

PlayerOwned == [default |-> "NONE", u1 |-> "OWNER"]

VisibilityRecords ==
    [public : BOOLEAN,
     users : {<<>>} \cup {<<U>> : U \in SUBSET ((UserIds \ GMs) \cup {UnknownUserId})}]

VisibilityStores == UNION {[A -> VisibilityRecords] : A \in SUBSET FocusActorIds}

(* arrays of at most n occupant references; an element may be null *)
RefArrays(n) == UNION {[1..k -> Uuids \cup {NULL}] : k \in 0..n}

OccupantRecords ==
    {<<>>} \cup
    {<<[value |-> v, max |-> m]>> :
        v \in {<<>>} \cup {<<a>> : a \in RefArrays(MaxRefs)},
        m \in {<<>>} \cup {<<c>> : c \in 0..MaxCapacity}}

(* no handler has run yet *)
NoEvent == [name |-> "none", user |-> NULL, actorId |-> NULL, writes |-> 0,
            notice |-> NULL, confirmed |-> FALSE]

NoResults ==
    /\ facilities = [a \in ActorIds |-> <<>>]
    /\ bastions = <<>>
    /\ occupants = <<>>
    /\ viewCall = <<>>
    /\ event = NoEvent
    /\ detailApps = <<>>
    /\ windows = <<>>
    /\ inFlight = <<>>

----------------------------------------------------------------------------
(* Slot computation: the detail view and the overview render one player
   character under every table, level, override and set of facilities. *)

SlotsInit ==
    /\ advancement \in AdvancementTables
    /\ actors \in {<<>>} \cup
                  {[a \in FocusActorIds |->
                       [type |-> "character", level |-> l, items |-> it,
                        ownership |-> PlayerOwned]] :
                   l \in Levels, it \in ItemSets}
    /\ gameUser = "u1"
    /\ buildingOverrides \in OverrideStores
    /\ visibilitySettings = <<>>
    /\ enabledBastions = <<>>
    /\ bastionData = <<>>
    /\ occupantData = <<>>
    /\ resolvable = {}
    /\ NoResults

(* BastionDetail._prepareContext -> _prepareFacilitiesContext *)
RenderDetail(actorId) ==
    /\ facilities' = [facilities EXCEPT ![actorId] = <<FacilitiesContext(actorId)>>]
    /\ UNCHANGED <<detailApps, windows,
                   inFlight, advancement, actors, gameUser, buildingOverrides,
                   visibilitySettings, enabledBastions, bastions, occupantData,
                   resolvable, occupants, viewCall,
                   bastionData, event>>

(* BastionOverview._prepareContext -> _prepareBastionsContext *)
RenderOverview ==
    /\ bastions' = <<BastionsContext>>
    /\ UNCHANGED <<detailApps, windows,
                   inFlight, advancement, actors, gameUser, buildingOverrides,
                   visibilitySettings, enabledBastions, facilities, occupantData,
                   resolvable, occupants, viewCall,
                   bastionData, event>>

SlotsNext ==
    \/ \E actorId \in FocusActorIds : RenderDetail(actorId)
    \/ RenderOverview

SlotsSpec == SlotsInit /\ [][SlotsNext]_vars

----------------------------------------------------------------------------
(* Occupancy builder: _prepareOccupants on every occupant record *)

OccupantsInit ==
    /\ advancement = [t \in Types |-> <<>>]
    /\ actors = <<>>
    /\ gameUser = "u1"
    /\ buildingOverrides = <<>>
    /\ visibilitySettings = <<>>
    /\ enabledBastions = <<>>
    /\ bastionData = <<>>
    /\ occupantData \in OccupantRecords
    /\ resolvable \in SUBSET Uuids
    /\ NoResults

BuildOccupants ==
    /\ occupants' = <<PrepareOccupants(occupantData, resolvable)>>
    /\ UNCHANGED <<detailApps, windows,
                   inFlight, advancement, actors, gameUser, buildingOverrides,
                   visibilitySettings, enabledBastions, facilities, bastions,
                   occupantData, resolvable, viewCall,
                   bastionData, event>>

OccupantsNext == BuildOccupants

OccupantsSpec == OccupantsInit /\ [][OccupantsNext]_vars

----------------------------------------------------------------------------
(* Visibility predicate: canViewBastion for every user id, on every
   ownership and visibility setting, the actor existing or not *)

ViewInit ==
    /\ advancement = [t \in Types |-> <<>>]
    /\ actors \in {<<>>} \cup
                  {[a \in FocusActorIds |->
                       [type |-> "character", level |-> 1, items |-> <<>>,
                        ownership |-> o]] : o \in Ownerships}
    /\ gameUser \in UserIds
    /\ buildingOverrides = <<>>
    /\ visibilitySettings \in VisibilityStores
    /\ enabledBastions = <<>>
    /\ bastionData = <<>>
    /\ occupantData = <<>>
    /\ resolvable = {}
    /\ NoResults

CallCanViewBastion(actorId, userId) ==
    /\ viewCall' = <<[actorId |-> actorId, userId |-> userId,
                      result |-> CanViewBastion(actorId, userId)]>>
    /\ UNCHANGED <<detailApps, windows,
                   inFlight, advancement, actors, gameUser, buildingOverrides,
                   visibilitySettings, enabledBastions, facilities, bastions,
                   occupantData, resolvable, occupants,
                   bastionData, event>>

ViewNext ==
    \E actorId \in ActorIds, userId \in UserIds \cup {UnknownUserId} :
        CallCanViewBastion(actorId, userId)

ViewSpec == ViewInit /\ [][ViewNext]_vars

----------------------------------------------------------------------------
(* Properties of the slot computation (SlotsSpec) *)

(* the detail view of an existing actor has been rendered *)
Rendered(actorId) == actorId \in DOMAIN actors /\ facilities[actorId] # <<>>

Ctx(actorId) == facilities[actorId][1]

(* the table value at the greatest key <= level, 0 when there is none *)
TableValueAt(config, level) ==
    LET below == {k \in DOMAIN config : k <= level}
    IN  IF below = {} THEN 0
        ELSE config[CHOOSE k \in below : \A j \in below : j <= k]

ItemsOfType(actorId, type) ==
    {id \in DOMAIN actors[actorId].items : actors[actorId].items[id].type = type}

(* C1: in the detail view and on the overview card, the max of each category
   is the table value at the greatest key <= the actor's level (0 when no key
   is <= the level) plus the actor's override for the category. *)
C1_MaxIsTableValuePlusOverride ==
    /\ \A a \in ActorIds : Rendered(a) =>
           \A t \in Types :
               Ctx(a)[t].max = TableValueAt(advancement[t], actors[a].level)
                               + GetBuildingOverrides(a)[t]
    /\ bastions # <<>> =>
           \A i \in 1..Len(bastions[1]) :
               LET card == bastions[1][i]
                   a == card.actorId
               IN  /\ card.basicMax
                        = TableValueAt(advancement["basic"], actors[a].level)
                          + GetBuildingOverrides(a).basic
                   /\ card.specialMax
                        = TableValueAt(advancement["special"], actors[a].level)
                          + GetBuildingOverrides(a).special

(* C2: value counts every facility of the basic list, free or not, and the
   special facilities whose free flag is not set. *)
C2_ValueCountsFreeBasicButNotFreeSpecial ==
    \A a \in ActorIds : Rendered(a) =>
        /\ Ctx(a).basic.value = Cardinality(ItemsOfType(a, "basic"))
        /\ Ctx(a).basic.value = Len(Ctx(a).basic.chosen)
        /\ Ctx(a).special.value =
               Cardinality({id \in ItemsOfType(a, "special") :
                               ~actors[a].items[id].free})

C2_Witness ==
    \E a \in ActorIds :
        /\ Rendered(a)
        /\ \E id \in ItemsOfType(a, "basic") : actors[a].items[id].free
        /\ \E id \in ItemsOfType(a, "special") : actors[a].items[id].free
        /\ Ctx(a).basic.value = 1
        /\ Ctx(a).special.value = 0

(* C3 as stated: for each category the number of placeholders in available
   is max(0, max - value). *)
C3_AvailableIsMaxMinusValue ==
    \A a \in ActorIds : Rendered(a) =>
        \A t \in Types :
            Len(Ctx(a)[t].available) = Max(0, Ctx(a)[t].max - Ctx(a)[t].value)

(* C3 amended: the special category has max(0, max - value) placeholders; the
   basic category has max(0, max - value) of them when that is positive and
   exactly one, the build slot, when max - value <= 0. *)
C3_AvailableIsMaxMinusValueOrBuildSlot ==
    \A a \in ActorIds : Rendered(a) =>
        /\ Len(Ctx(a).special.available)
              = Max(0, Ctx(a).special.max - Ctx(a).special.value)
        /\ Len(Ctx(a).basic.available)
              = Max(1, Ctx(a).basic.max - Ctx(a).basic.value)
        /\ \A t \in Types : \A i \in 1..Len(Ctx(a)[t].available) :
               Ctx(a)[t].available[i].label = "build"
                   <=> (t = "basic" /\ Ctx(a).basic.max <= Ctx(a).basic.value)

C3_Witness ==
    \E a \in ActorIds :
        /\ Rendered(a)
        /\ Ctx(a).basic.max < Ctx(a).basic.value
        /\ Len(Ctx(a).basic.available) = 1
        /\ Ctx(a).special.max = 2
        /\ Ctx(a).special.value = 0
        /\ Len(Ctx(a).special.available) = 2

(* C4: the basic category's available list of an existing actor has at least
   one entry, also when max - value <= 0. *)
C4_BasicAlwaysHasASlot ==
    \A a \in ActorIds : Rendered(a) => Len(Ctx(a).basic.available) >= 1

C4_Witness ==
    \E a \in ActorIds :
        /\ Rendered(a)
        /\ Ctx(a).basic.max = 0
        /\ Ctx(a).basic.value = 0
        /\ Len(Ctx(a).basic.available) = 1

(* the result of the slot computation for the same actor at another level *)
AtLevel(actorId, level) ==
    ActorFacilities(actorId, [actors[actorId] EXCEPT !.level = level])

(* the rendered result against the result at every other level: neither max
   nor the number of available slots of category t decreases as the level
   grows *)
MonotoneInLevel(a, t) ==
    \A l \in Levels :
        LET other == AtLevel(a, l)[t]
            here == Ctx(a)[t]
        IN  /\ l <= actors[a].level =>
                   /\ other.max <= here.max
                   /\ Len(other.available) <= Len(here.available)
            /\ l >= actors[a].level =>
                   /\ other.max >= here.max
                   /\ Len(other.available) >= Len(here.available)

(* slot counts that never decrease as the level key grows *)
Cumulative(config) ==
    \A k1, k2 \in DOMAIN config : k1 <= k2 => config[k1] <= config[k2]

(* C5 as stated: for every advancement table, max (and the number of
   available slots) is non-decreasing in the level. *)
C5_MonotoneForEveryTable ==
    \A a \in ActorIds : Rendered(a) => \A t \in Types : MonotoneInLevel(a, t)

(* C5 amended: for every advancement table whose slot counts are
   non-negative and non-decreasing in the level key, max (and the number of
   available slots) is non-decreasing in the level. *)
C5_MonotoneForCumulativeTables ==
    \A a \in ActorIds : Rendered(a) =>
        \A t \in Types : Cumulative(advancement[t]) => MonotoneInLevel(a, t)

C5_Witness ==
    \E a \in ActorIds :
        /\ Rendered(a)
        /\ DOMAIN advancement["special"] = TableKeys["special"]
        /\ Cumulative(advancement["special"])
        /\ \E l \in Levels :
               /\ l > actors[a].level
               /\ AtLevel(a, l).special.max > Ctx(a).special.max
               /\ Len(AtLevel(a, l).special.available)
                      > Len(Ctx(a).special.available)

----------------------------------------------------------------------------
(* Properties of the occupancy builder (OccupantsSpec) *)

Built == occupants # <<>>

Slots == occupants[1]

(* the declared capacity of the record: 0 when the record or its max is
   missing *)
Capacity ==
    IF occupantData = <<>> THEN 0
    ELSE IF occupantData[1].max = <<>> THEN 0 ELSE occupantData[1].max[1]

(* the reference list of the record: empty when the record or its value is
   missing *)
Refs ==
    IF occupantData = <<>> THEN <<>>
    ELSE IF occupantData[1].value = <<>> THEN <<>> ELSE occupantData[1].value[1]

(* the reference stored at 0-based position i, NULL when there is none *)
RefAt(i) == IF i < Len(Refs) THEN Refs[i + 1] ELSE NULL

(* C6: the builder returns exactly capacity slots, whatever the length of
   the reference list; capacity 0 with no references gives the empty
   sequence. *)
C6_ExactlyCapacitySlots ==
    Built => /\ Len(Slots) = Capacity
             /\ (Capacity = 0 /\ Refs = <<>>) => Slots = <<>>

C6_Witness ==
    /\ Built
    /\ Len(Refs) > Capacity
    /\ Capacity = 2
    /\ Len(Slots) = 2

(* C7: slot i has index i and carries the i-th reference when there is one
   and a null reference otherwise; no slot stands for a position at or past
   the capacity. *)
C7_SlotIBoundToRefI ==
    Built =>
        /\ \A i \in 0..(Capacity - 1) :
               /\ Slots[i + 1].index = i
               /\ Slots[i + 1].uuid = RefAt(i)
        /\ \A k \in DOMAIN Slots : Slots[k].index < Capacity
        /\ (Refs = <<"uuid-A">> /\ Capacity = 2 /\ "uuid-A" \in resolvable) =>
               Slots = <<[index |-> 0, uuid |-> "uuid-A", actor |-> "uuid-A",
                          empty |-> FALSE],
                         [index |-> 1, uuid |-> NULL, actor |-> NULL,
                          empty |-> TRUE]>>

C7_Witness ==
    /\ Built
    /\ Refs = <<"uuid-A", "uuid-B", "uuid-B">>
    /\ Capacity = 2
    /\ Slots[1].uuid = "uuid-A"
    /\ Slots[2].uuid = "uuid-B"

(* C8 as stated: a slot is marked empty iff its reference field is null. *)
C8_EmptyIffNoReference ==
    Built => \A k \in DOMAIN Slots : Slots[k].empty <=> (Slots[k].uuid = NULL)

(* C8 amended: a slot is marked empty iff no reference is stored at its
   index or the stored reference does not resolve (its actor field is
   null). *)
C8_EmptyIffNoResolvedReference ==
    Built =>
        \A k \in DOMAIN Slots :
            /\ Slots[k].empty <=> (RefAt(k - 1) = NULL \/ RefAt(k - 1) \notin resolvable)
            /\ Slots[k].empty <=> (Slots[k].actor = NULL)

C8_Witness ==
    /\ Built
    /\ \E k \in DOMAIN Slots : Slots[k].uuid # NULL /\ Slots[k].empty
    /\ \E k \in DOMAIN Slots : Slots[k].uuid # NULL /\ ~Slots[k].empty
    /\ \E k \in DOMAIN Slots : Slots[k].uuid = NULL /\ Slots[k].empty

(* C9: a reference that does not resolve gives an empty slot at its index,
   and every slot holding another reference is the slot built when the
   lookup succeeds. *)
C9_UnresolvedDegradesToEmpty ==
    Built =>
        \A u \in Uuids \ resolvable :
            LET ideal == PrepareOccupants(occupantData, resolvable \cup {u})
            IN  /\ Len(Slots) = Len(ideal)
                /\ \A k \in DOMAIN Slots :
                       IF Slots[k].uuid = u
                       THEN Slots[k].empty /\ Slots[k].actor = NULL
                       ELSE Slots[k] = ideal[k]

C9_Witness ==
    /\ Built
    /\ Len(Slots) = 2
    /\ Slots[1].uuid = "uuid-A" /\ "uuid-A" \notin resolvable /\ Slots[1].empty
    /\ Slots[2].uuid = "uuid-B" /\ "uuid-B" \in resolvable /\ ~Slots[2].empty

----------------------------------------------------------------------------
(* Properties of the visibility predicate (ViewSpec) *)

Called == viewCall # <<>>

Call == viewCall[1]

(* the user identified by userId owns the actor *)
OwnsActor(actorId, userId) ==
    /\ actorId \in DOMAIN actors
    /\ UserExists(userId)
    /\ TestUserOwner(actors[actorId], userId)

(* C10: canViewBastion(actorId, userId) returns true whenever the user
   identified by userId is a GM, owns the actor, or the actor's visibility
   settings mark it public or list that user id.  (The claim also calls the
   result a boolean; the call answers undefined when none of these holds and
   the settings carry no user list.) *)
C10_TrueForGMOwnerPublicOrListed ==
    ( /\ Called
      /\ \/ (UserExists(Call.userId) /\ UserIsGM(Call.userId))
         \/ OwnsActor(Call.actorId, Call.userId)
         \/ ActorVisibility(Call.actorId).public
         \/ UsersIncludes(ActorVisibility(Call.actorId), Call.userId) = JsTrue )
    => Call.result = JsTrue

(* C11: canViewBastion returns true whenever userId identifies a GM user,
   for every actor id, the id of no existing actor included, and whatever
   the visibility settings hold. *)
C11_TrueForEveryGM ==
    (Called /\ UserExists(Call.userId) /\ UserIsGM(Call.userId))
    => Call.result = JsTrue

C11_Witness ==
    /\ Called
    /\ UserIsGM(Call.userId)
    /\ ~UserIsGM(gameUser)
    /\ Call.actorId \notin DOMAIN actors
    /\ Call.actorId \notin DOMAIN visibilitySettings
    /\ Call.result = JsTrue

(* C12: for a userId that identifies no known user, a call on an actor that
   is not marked public and whose list does not hold that userId does not
   return true. *)
C12_UnknownUserCannotView ==
    ( /\ Called
      /\ ~UserExists(Call.userId)
      /\ ~ActorVisibility(Call.actorId).public
      /\ UsersIncludes(ActorVisibility(Call.actorId), Call.userId) # JsTrue )
    => Call.result # JsTrue

----------------------------------------------------------------------------
(* module.mjs: the setters of the four world settings *)

(* a write that stores the one entry alone *)
WithOnlyEntry(data, actorId, entry) == [id \in {actorId} |-> entry]

(* data[actorId] = entry, on a deep clone of the stored mapping *)
WithEntry(data, actorId, entry) ==
    [id \in (DOMAIN data) \cup {actorId} |->
        IF id = actorId THEN entry ELSE data[id]]

(* data[actorId] || {} *)
EntryOrEmpty(data, actorId) ==
    IF actorId \in DOMAIN data THEN data[actorId] ELSE <<>>

(* a merge that drops the stored fields the new object lacks *)
ReplaceObject(original, other) == other

(* foundry.utils.mergeObject(original, other): the fields of other are
   written over those of original, the remaining fields are kept *)
MergeObject(original, other) ==
    [f \in (DOMAIN original) \cup (DOMAIN other) |->
        IF f \in DOMAIN other THEN other[f] ELSE original[f]]

(* what a handler leaves behind: its name, the user it ran for, the actor
   it was about, the number of writes to persisted state it issued, the
   notification it showed and whether a dialog of it was confirmed *)
HandlerEvent(name, actorId, writes, notice, confirmed) ==
    [name |-> name, user |-> gameUser, actorId |-> actorId, writes |-> writes,
     notice |-> notice, confirmed |-> confirmed]

(* overview.render() where the overview is open: _prepareBastionsContext
   runs again on the state the handler leaves *)
RerenderOverview ==
    bastions' = IF bastions = <<>> THEN <<>> ELSE <<BastionsContext>>'

(* setBastionData(actorId, newData) *)
SetBastionData(actorId, newData) ==
    /\ bastionData' = WithEntry(bastionData, actorId,
                          MergeObject(EntryOrEmpty(bastionData, actorId), newData))
    /\ event' = HandlerEvent("setBastionData", actorId, 1, NULL, TRUE)
    /\ UNCHANGED <<detailApps, windows,
                   inFlight, advancement, actors, gameUser, buildingOverrides,
                   visibilitySettings, enabledBastions, facilities, bastions,
                   occupantData, resolvable, occupants, viewCall>>

(* a setter of the overrides without the GM test *)
OverridesWrittenByAnyone(actorId, overrides) ==
    WithEntry(buildingOverrides, actorId, overrides)

(* setBuildingOverrides: `if (!game.user.isGM) return;` then the write *)
OverridesWritten(actorId, overrides) ==
    IF ~UserIsGM(gameUser) THEN buildingOverrides
    ELSE WithEntry(buildingOverrides, actorId, overrides)

(* setBuildingOverrides(actorId, overrides) *)
SetBuildingOverrides(actorId, overrides) ==
    /\ buildingOverrides' = OverridesWritten(actorId, overrides)
    /\ event' = HandlerEvent("setBuildingOverrides", actorId,
                             IF UserIsGM(gameUser) THEN 1 ELSE 0, NULL, TRUE)
    /\ UNCHANGED <<detailApps, windows,
                   inFlight, advancement, actors, gameUser, visibilitySettings,
                   enabledBastions, facilities, bastions, occupantData,
                   resolvable, occupants, viewCall, bastionData>>

(* the guard of setVisibility: !actor?.isOwner && !game.user.isGM returns *)
MaySetVisibility(actorId) ==
    \/ (actorId \in DOMAIN actors /\ IsOwner(actors[actorId]))
    \/ UserIsGM(gameUser)

(* a setter of the visibility without the owner test *)
VisibilityWrittenByAnyone(actorId, settings) ==
    WithEntry(visibilitySettings, actorId, settings)

VisibilityWritten(actorId, settings) ==
    IF ~MaySetVisibility(actorId) THEN visibilitySettings
    ELSE WithEntry(visibilitySettings, actorId, settings)

(* setVisibility(actorId, settings) *)
SetVisibility(actorId, settings) ==
    /\ visibilitySettings' = VisibilityWritten(actorId, settings)
    /\ event' = HandlerEvent("setVisibility", actorId,
                             IF MaySetVisibility(actorId) THEN 1 ELSE 0, NULL, TRUE)
    /\ UNCHANGED <<detailApps, windows,
                   inFlight, advancement, actors, gameUser, buildingOverrides,
                   enabledBastions, facilities, bastions, occupantData,
                   resolvable, occupants, viewCall, bastionData>>

(* setBastionEnabled(actorId, isEnabled): GM only; the open overview is
   rendered again after the write *)
SetBastionEnabled(actorId, isEnabled) ==
    /\ enabledBastions' = IF ~UserIsGM(gameUser) THEN enabledBastions
                          ELSE WithEntry(enabledBastions, actorId, isEnabled)
    /\ event' = HandlerEvent("setBastionEnabled", actorId,
                             IF UserIsGM(gameUser) THEN 1 ELSE 0, NULL, TRUE)
    /\ UNCHANGED <<detailApps, windows,
                   inFlight, advancement, actors, gameUser, buildingOverrides,
                   visibilitySettings, facilities, occupantData,
                   resolvable, occupants, viewCall, bastionData>>
    /\ IF UserIsGM(gameUser) THEN RerenderOverview ELSE UNCHANGED bastions

----------------------------------------------------------------------------
(* bastion-overview.mjs: the dialogs of the overview *)

(* the fallback of `parseInt(form.elements.fadeAmount?.value) || 70` *)
DefaultFade == 70

(* parseInt(value) || fallback: a blank field parses to NaN, and NaN and 0
   are both falsy.  The field is <<>> when blank, <<n>> when it holds n. *)
ParseIntOr(field, fallback) ==
    IF field = <<>> \/ field[1] = 0 THEN fallback ELSE field[1]

(* value?.trim() || null *)
TrimOrNull(value) == IF value = "" THEN NULL ELSE value

(* game.users.filter(u => !u.isGM) *)
Players == {u \in UserIds : ~UserIsGM(u)}

(* the object the Save callback passes to setBastionData; of its seven
   fields the model keeps a text field and a number field *)
NewBastionData(form) ==
    [name |-> TrimOrNull(form.bastionName),
     fadeAmount |-> ParseIntOr(form.fadeAmount, DefaultFade)]

(* { public: isPublic, users: sharedUsers } *)
NewVisibility(form) ==
    [public |-> form.public, users |-> <<{u \in Players : u \in form.checked}>>]

(* { basic: overrideBasic, special: overrideSpecial } *)
NewOverrides(form) ==
    [basic |-> ParseIntOr(form.overrideBasic, 0),
     special |-> ParseIntOr(form.overrideSpecial, 0)]

(* a dialog whose callback runs however it is closed *)
AlwaysSaves(confirmed) == TRUE

(* DialogV2.prompt / confirm with rejectClose: false: the ok callback (or
   the branch behind the answer) runs only when the dialog was confirmed *)
DialogSaves(confirmed) == confirmed

(* #onOpenSettings: the dialog opens for an existing actor that the current
   user owns, or for a GM *)
SettingsDialogOpens(actorId) ==
    /\ actorId \in DOMAIN actors
    /\ (IsOwner(actors[actorId]) \/ UserIsGM(gameUser))

(* a Save whose three setters all write, whoever saves *)
SaveWritesUnguarded(actorId) == 3

(* the writes of the Save callback: setBastionData always, setVisibility
   past its owner/GM guard, setBuildingOverrides under `if (game.user.isGM)` *)
SaveWrites(actorId) ==
    1 + (IF MaySetVisibility(actorId) THEN 1 ELSE 0)
      + (IF UserIsGM(gameUser) THEN 1 ELSE 0)

(* #onOpenSettings -> _showSettingsDialog, closed with Save (confirmed) or
   dismissed.  Save calls setBastionData, setVisibility and, for a GM,
   setBuildingOverrides, then the overview is rendered again. *)
SettingsDialog(actorId, confirmed, form) ==
    LET saves == SettingsDialogOpens(actorId) /\ DialogSaves(confirmed)
    IN  /\ bastionData' =
               IF saves
               THEN WithEntry(bastionData, actorId,
                        MergeObject(EntryOrEmpty(bastionData, actorId),
                                    NewBastionData(form)))
               ELSE bastionData
        /\ visibilitySettings' =
               IF saves THEN VisibilityWritten(actorId, NewVisibility(form))
               ELSE visibilitySettings
        /\ buildingOverrides' =
               IF saves /\ UserIsGM(gameUser)
               THEN OverridesWritten(actorId, NewOverrides(form))
               ELSE buildingOverrides
        /\ event' = HandlerEvent("settingsDialog", actorId,
                        IF saves THEN SaveWrites(actorId) ELSE 0,
                        NULL, confirmed)
        /\ UNCHANGED <<detailApps, windows,
                       inFlight, advancement, actors, gameUser, enabledBastions,
                       facilities, occupantData, resolvable, occupants,
                       viewCall>>
        /\ IF saves THEN bastions' = <<BastionsContext>>'
           ELSE UNCHANGED bastions

(* #onManageBastions: the characters offered by the dialog *)
ManagedCharacters ==
    {id \in DOMAIN actors :
        /\ actors[id].type = "character"
        /\ \E userId \in (DOMAIN actors[id].ownership) \ {"default"} :
               /\ UserExists(userId)
               /\ ~UserIsGM(userId)
               /\ actors[id].ownership[userId] = "OWNER"}

(* #onManageBastions, closed with Save (confirmed) or dismissed: GM only.
   Save stores a new mapping holding one entry per offered character; the
   overview is rendered again either way. *)
ManageBastions(confirmed, checked) ==
    LET saves == UserIsGM(gameUser) /\ DialogSaves(confirmed)
    IN  /\ enabledBastions' =
               IF saves THEN [id \in ManagedCharacters |-> id \in checked]
               ELSE enabledBastions
        /\ event' = HandlerEvent("manageBastions", NULL,
                                 IF saves THEN 1 ELSE 0, NULL, confirmed)
        /\ UNCHANGED <<detailApps, windows,
                       inFlight, advancement, actors, gameUser, buildingOverrides,
                       visibilitySettings, facilities, occupantData,
                       resolvable, occupants, viewCall, bastionData>>
        /\ IF UserIsGM(gameUser) THEN bastions' = <<BastionsContext>>'
           ELSE UNCHANGED bastions

(* #onRefresh: this.render() *)
RefreshOverview ==
    /\ bastions' = <<BastionsContext>>
    /\ event' = HandlerEvent("refresh", NULL, 0, NULL, TRUE)
    /\ UNCHANGED <<detailApps, windows,
                   inFlight, advancement, actors, gameUser, buildingOverrides,
                   visibilitySettings, enabledBastions, facilities,
                   occupantData, resolvable, occupants, viewCall, bastionData>>

(* the next handler runs in the client of another user, which has rendered
   nothing yet; the world (actors and settings) is shared *)
SwitchClient(user) ==
    /\ user # gameUser
    /\ gameUser' = user
    /\ facilities' = [a \in ActorIds |-> <<>>]
    /\ bastions' = <<>>
    /\ occupants' = <<>>
    /\ viewCall' = <<>>
    /\ event' = NoEvent
    /\ detailApps' = <<>>
    /\ windows' = <<>>
    /\ UNCHANGED <<detailApps, windows,
                   inFlight, advancement, actors, buildingOverrides, visibilitySettings,
                   enabledBastions, occupantData, resolvable, bastionData>>

----------------------------------------------------------------------------
(* SettingsSpec: the setters and the settings dialog, run by every
   user in turn on a world of one player character (a1); a2 is the id of
   no actor *)

(* the form a user submits in the settings dialog: a blank name and fade
   amount, the bastion shared with u2, the largest basic override *)
SettingsForms ==
    {[bastionName |-> "", fadeAmount |-> <<>>, public |-> FALSE,
      checked |-> {"u2"}, overrideBasic |-> <<MaxOverride>>,
      overrideSpecial |-> <<0>>]}

(* arguments of direct calls of the setters *)
BastionDataInputs == {[name |-> "Keep"]}

VisibilityInputs ==
    {[public |-> TRUE, users |-> <<>>],
     [public |-> FALSE, users |-> <<{"u2"}>>]}

OverrideInputs == {[basic |-> 0, special |-> MaxOverride]}

SettingsInit ==
    /\ advancement = [basic |-> <<>>, special |-> <<>>]
    /\ actors = [a \in FocusActorIds |->
                    [type |-> "character", level |-> 1, items |-> <<>>,
                     ownership |-> PlayerOwned]]
    /\ gameUser \in UserIds
    /\ buildingOverrides = <<>>
    /\ visibilitySettings = <<>>
    /\ enabledBastions = <<>>
    /\ bastionData = <<>>
    /\ occupantData = <<>>
    /\ resolvable = {}
    /\ NoResults

SettingsNext ==
    \/ \E user \in UserIds : SwitchClient(user)
    \/ \E actorId \in ActorIds, newData \in BastionDataInputs :
           SetBastionData(actorId, newData)
    \/ \E actorId \in ActorIds, overrides \in OverrideInputs :
           SetBuildingOverrides(actorId, overrides)
    \/ \E actorId \in ActorIds, settings \in VisibilityInputs :
           SetVisibility(actorId, settings)
    \/ \E actorId \in ActorIds, isEnabled \in BOOLEAN :
           SetBastionEnabled(actorId, isEnabled)
    \/ \E actorId \in ActorIds, confirmed \in BOOLEAN, form \in SettingsForms :
           SettingsDialog(actorId, confirmed, form)

SettingsSpec == SettingsInit /\ [][SettingsNext]_vars

----------------------------------------------------------------------------
(* Properties of the setters (SettingsSpec) *)

(* every entry of a mapping but that of actorId is the same before and
   after *)
OthersKept(before, after, actorId) ==
    /\ (DOMAIN before) \ {actorId} = (DOMAIN after) \ {actorId}
    /\ \A id \in (DOMAIN before) \ {actorId} : after[id] = before[id]

(* C13: no step taken for a user who is not a GM, a setBuildingOverrides
   call and a save of the settings dialog included, changes the stored
   building overrides of any actor. *)
C13_OverridesChangedOnlyByGM ==
    [][~UserIsGM(gameUser) => buildingOverrides' = buildingOverrides]_vars

C13_Witness ==
    /\ event.name = "settingsDialog"
    /\ event.confirmed
    /\ event.writes = 2
    /\ ~UserIsGM(event.user)
    /\ event.actorId \in DOMAIN buildingOverrides
    /\ buildingOverrides[event.actorId] # NewOverrides(CHOOSE f \in SettingsForms : TRUE)

(* C18: a setBastionData, setBuildingOverrides, setVisibility or
   setBastionEnabled call that writes changes, in its own mapping, the entry
   of its actor alone, and leaves the three other mappings as they were. *)
C18_SetterChangesOnlyItsEntry ==
    [][\A actorId \in ActorIds :
          (event'.actorId = actorId /\ event'.writes = 1) =>
              /\ event'.name = "setBastionData" =>
                     /\ OthersKept(bastionData, bastionData', actorId)
                     /\ UNCHANGED <<buildingOverrides, visibilitySettings,
                                    enabledBastions>>
              /\ event'.name = "setBuildingOverrides" =>
                     /\ OthersKept(buildingOverrides, buildingOverrides', actorId)
                     /\ UNCHANGED <<bastionData, visibilitySettings,
                                    enabledBastions>>
              /\ event'.name = "setVisibility" =>
                     /\ OthersKept(visibilitySettings, visibilitySettings', actorId)
                     /\ UNCHANGED <<bastionData, buildingOverrides,
                                    enabledBastions>>
              /\ event'.name = "setBastionEnabled" =>
                     /\ OthersKept(enabledBastions, enabledBastions', actorId)
                     /\ UNCHANGED <<bastionData, buildingOverrides,
                                    visibilitySettings>>]_vars

C18_Witness ==
    /\ event.name = "setBastionEnabled"
    /\ event.writes = 1
    /\ event.actorId = "a1"
    /\ "a2" \in DOMAIN enabledBastions
    /\ enabledBastions["a1"] # enabledBastions["a2"]
    /\ bastionData # <<>>
    /\ visibilitySettings # <<>>
    /\ buildingOverrides # <<>>

(* C19: a setVisibility call for a user who neither owns the actor nor is a
   GM, the actor missing included, leaves the visibility mapping as it was;
   a call for the owner or a GM stores the given settings as that actor's
   entry and changes no other entry. *)
C19_VisibilityWrittenByOwnerOrGM ==
    [][\A actorId \in ActorIds, settings \in VisibilityInputs :
          SetVisibility(actorId, settings) =>
              IF OwnsActor(actorId, gameUser) \/ UserIsGM(gameUser)
              THEN /\ actorId \in DOMAIN visibilitySettings'
                   /\ visibilitySettings'[actorId] = settings
                   /\ OthersKept(visibilitySettings, visibilitySettings', actorId)
              ELSE visibilitySettings' = visibilitySettings]_vars

C19_Witness ==
    /\ event.name = "setVisibility"
    /\ event.writes = 0
    /\ event.user = "u2"
    /\ event.actorId = "a1"
    /\ "a1" \in DOMAIN visibilitySettings
    /\ "a2" \in DOMAIN visibilitySettings

----------------------------------------------------------------------------
(* ListSpec: _prepareBastionsContext on worlds of two actors, for every
   user, ownership, enabled flag and visibility entry *)

(* ownership objects of the listed actor: those of Ownerships, and an OWNER
   entry for a GM or for a user that no longer exists *)
ListOwnerships ==
    Ownerships \cup {[default |-> "NONE", gm |-> "OWNER"],
                     [default |-> "NONE", ghost |-> "OWNER"]}

(* the second actor: missing, a player's npc, or a character of u2 *)
SecondActors ==
    {<<>>,
     <<[type |-> "npc", level |-> 1, items |-> <<>>, ownership |-> PlayerOwned]>>,
     <<[type |-> "character", level |-> 1, items |-> <<>>,
        ownership |-> [default |-> "NONE", u2 |-> "OWNER"]]>>}

ListInit ==
    /\ advancement = [basic |-> <<>>, special |-> <<>>]
    /\ \E o \in ListOwnerships, second \in SecondActors :
          LET first == [type |-> "character", level |-> 1, items |-> <<>>,
                        ownership |-> o]
          IN  actors = IF second = <<>> THEN [a \in {"a1"} |-> first]
                       ELSE [a \in ActorIds |->
                                IF a = "a1" THEN first ELSE second[1]]
    /\ gameUser \in UserIds
    /\ buildingOverrides = <<>>
    /\ visibilitySettings \in
           UNION {[A -> VisibilityInputs] : A \in SUBSET ActorIds}
    /\ enabledBastions \in UNION {[A -> BOOLEAN] : A \in SUBSET ActorIds}
    /\ bastionData = <<>>
    /\ occupantData = <<>>
    /\ resolvable = {}
    /\ NoResults

ListNext == RenderOverview

ListSpec == ListInit /\ [][ListNext]_vars

----------------------------------------------------------------------------
(* Properties of the overview listing (ListSpec) *)

Listed == {bastions[1][i].actorId : i \in DOMAIN bastions[1]}

(* some existing user who is not a GM has OWNER level on the actor, by an
   entry of its own or by the default level *)
OwnedByPlayer(actorId) ==
    \E userId \in UserIds \ GMs : TestUserOwner(actors[actorId], userId)

(* the ownership object names an existing user who is not a GM at OWNER
   level; the default level does not count *)
NamesPlayerAsOwner(actorId) ==
    \E userId \in UserIds \ GMs :
        /\ userId \in DOMAIN actors[actorId].ownership
        /\ actors[actorId].ownership[userId] = "OWNER"

NotDisabled(actorId) ==
    actorId \notin DOMAIN enabledBastions \/ enabledBastions[actorId] # FALSE

(* C20 as stated: the listed actors are exactly the characters owned at
   OWNER level by an existing non-GM user, not explicitly disabled, that
   the current user can view. *)
C20_ListedIffOwnedEnabledViewable ==
    bastions # <<>> =>
        /\ Listed \subseteq DOMAIN actors
        /\ \A id \in DOMAIN actors :
               id \in Listed <=>
                   /\ actors[id].type = "character"
                   /\ OwnedByPlayer(id)
                   /\ NotDisabled(id)
                   /\ CanViewBastion(id, gameUser) = JsTrue

(* C20, amended: the listed actors are exactly the characters whose
   ownership object names an existing non-GM user at OWNER level (the
   default level does not count), not explicitly disabled, that the
   current user can view. *)
C20_ListedIffClaimedEnabledViewable ==
    bastions # <<>> =>
        /\ Listed \subseteq DOMAIN actors
        /\ \A id \in DOMAIN actors :
               id \in Listed <=>
                   /\ actors[id].type = "character"
                   /\ NamesPlayerAsOwner(id)
                   /\ NotDisabled(id)
                   /\ CanViewBastion(id, gameUser) = JsTrue

C20_Witness ==
    /\ bastions # <<>>
    /\ Listed = {"a2"}
    /\ gameUser = "u2"
    /\ actors["a1"].ownership = [default |-> "NONE", u1 |-> "OWNER", u2 |-> "OWNER"]
    /\ "a1" \in DOMAIN enabledBastions
    /\ ~NotDisabled("a1")

----------------------------------------------------------------------------
(* bastion-detail.mjs: the handlers of the detail view of actorId.  A
   facility item is a record of its category (type), its free flag and its
   defenders property, an occupant record as _prepareOccupants reads it:
   <<>> when the property is missing, else <<[value, max]>>. *)

(* the documents fromUuid resolves for a dropped or browsed item *)
SourceItems ==
    [basicItem |-> [docType |-> "facility", type |-> "basic", level |-> 1,
                    free |-> FALSE,
                    defenders |-> <<[value |-> <<<<>>>>, max |-> <<1>>]>>],
     specialItem |-> [docType |-> "facility", type |-> "special",
                      level |-> MaxLevel, free |-> FALSE, defenders |-> <<>>],
     weaponItem |-> [docType |-> "weapon", type |-> NULL, level |-> 0,
                     free |-> FALSE, defenders |-> <<>>]]

(* a uuid that resolves to no document *)
MissingItem == "missingItem"

(* TextEditor.getDragEventData(event): the payloads dragged onto the view *)
DropPayloads ==
    {[type |-> "Item", uuid |-> u] : u \in (DOMAIN SourceItems) \cup {MissingItem}}
    \cup {[type |-> "Actor", uuid |-> "uuid-A"]}

(* this.actor?.items.get(facilityId) finds a facility *)
HasFacility(actorId, facilityId) ==
    /\ actorId \in DOMAIN actors
    /\ facilityId \in DOMAIN actors[actorId].items

(* foundry.utils.getProperty(facility, prop) || {} *)
PropertyOrEmpty(facility) ==
    IF facility.defenders = <<>> THEN [value |-> <<>>, max |-> <<>>]
    ELSE facility.defenders[1]

(* a test that lets a list of exactly the capacity take one more *)
SlotOverfull(occupancy) ==
    Len(ValueOrEmpty(occupancy)) > MaxOrZero(occupancy)

(* (value?.length || 0) >= (max || 0) *)
SlotFull(occupancy) ==
    Len(ValueOrEmpty(occupancy)) >= MaxOrZero(occupancy)

(* facility.update({ [`${prop}.value`]: newValue }) *)
WithOccupants(actorId, facilityId, newValue) ==
    [actors EXCEPT ![actorId].items[facilityId].defenders =
        <<[PropertyOrEmpty(actors[actorId].items[facilityId])
              EXCEPT !.value = <<newValue>>]>>]

(* this.render() of the detail view: _prepareFacilitiesContext runs again
   on the state the handler leaves *)
RerenderDetail(actorId) ==
    facilities' = [facilities EXCEPT ![actorId] = <<FacilitiesContext(actorId)'>>]

(* _onDropActor on the defenders slot of facilityId *)
DropActor(actorId, data, facilityId) ==
    LET found == data.type = "Actor" /\ HasFacility(actorId, facilityId)
        full == found /\ SlotFull(PropertyOrEmpty(actors[actorId].items[facilityId]))
    IN  /\ actors' =
               IF found /\ ~full
               THEN WithOccupants(actorId, facilityId,
                        Append(ValueOrEmpty(PropertyOrEmpty(
                                   actors[actorId].items[facilityId])),
                               data.uuid))
               ELSE actors
        /\ event' = HandlerEvent("dropActor", actorId,
                                 IF found /\ ~full THEN 1 ELSE 0,
                                 IF full THEN "SlotFull" ELSE NULL, TRUE)
        /\ UNCHANGED <<detailApps, windows,
                       inFlight, advancement, gameUser, buildingOverrides,
                       visibilitySettings, enabledBastions, bastions,
                       occupantData, resolvable, occupants, viewCall,
                       bastionData>>
        /\ IF found /\ ~full THEN RerenderDetail(actorId)
           ELSE UNCHANGED facilities

(* The two halves of _onDropActor around its await.  The handler reads the
   list of the local document and issues facility.update with the whole new
   list; the local document takes the new list when the update completes.
   inFlight keeps the issued updates in the order of their issue. *)
MaxDrops == 2

(* _onDropActor up to `await facility.update(...)`: the checks, the read of
   the list and the issue of the update *)
StartDropActor(actorId, data, facilityId) ==
    LET found == data.type = "Actor" /\ HasFacility(actorId, facilityId)
        full == found /\ SlotFull(PropertyOrEmpty(actors[actorId].items[facilityId]))
    IN  /\ Len(inFlight) < MaxDrops
        /\ inFlight' =
               IF found /\ ~full
               THEN Append(inFlight,
                        [actorId |-> actorId, facilityId |-> facilityId,
                         uuid |-> data.uuid,
                         newValue |-> Append(ValueOrEmpty(PropertyOrEmpty(
                                                 actors[actorId].items[facilityId])),
                                             data.uuid),
                         done |-> FALSE])
               ELSE inFlight
        /\ event' = HandlerEvent("dropActor", actorId,
                                 IF found /\ ~full THEN 1 ELSE 0,
                                 IF full THEN "SlotFull" ELSE NULL, TRUE)
        /\ UNCHANGED <<detailApps, windows, advancement, actors, gameUser,
                       buildingOverrides, visibilitySettings, enabledBastions,
                       facilities, bastions, occupantData, resolvable,
                       occupants, viewCall, bastionData>>

(* an issued update completes: the document takes the list sent with it,
   and the handler goes on to this.render() *)
CompleteUpdate(k) ==
    /\ k \in 1..Len(inFlight)
    /\ ~inFlight[k].done
    /\ actors' = WithOccupants(inFlight[k].actorId, inFlight[k].facilityId,
                               inFlight[k].newValue)
    /\ inFlight' = [inFlight EXCEPT ![k].done = TRUE]
    /\ UNCHANGED <<detailApps, windows, advancement, gameUser,
                   buildingOverrides, visibilitySettings, enabledBastions,
                   bastions, occupantData, resolvable, occupants, viewCall,
                   bastionData, event>>
    /\ RerenderDetail(inFlight[k].actorId)

(* the checks of _onDropFacility with the level check left out *)
DropOutcomeWithoutLevel(actorId, data, facilityType) ==
    IF ~((actorId \in DOMAIN actors /\ IsOwner(actors[actorId]))
         \/ UserIsGM(gameUser)) THEN "return"
    ELSE IF data.type # "Item" THEN "return"
    ELSE IF data.uuid \notin DOMAIN SourceItems THEN "ItemNotFound"
    ELSE IF SourceItems[data.uuid].docType # "facility" THEN "NotAFacility"
    ELSE IF SourceItems[data.uuid].type # facilityType THEN "WrongFacilityType"
    ELSE IF actorId \notin DOMAIN actors THEN "TypeError"
    ELSE "FacilityAdded"

(* the checks of _onDropFacility, in the order of the code: what the
   handler ends with.  "return" is a silent return, "TypeError" the read of
   this.actor.system on a missing actor, "FacilityAdded" the creation.  Both
   levels are read with `|| 0`, which leaves a number as it is. *)
FacilityDropOutcome(actorId, data, facilityType) ==
    IF ~((actorId \in DOMAIN actors /\ IsOwner(actors[actorId]))
         \/ UserIsGM(gameUser)) THEN "return"
    ELSE IF data.type # "Item" THEN "return"
    ELSE IF data.uuid \notin DOMAIN SourceItems THEN "ItemNotFound"
    ELSE IF SourceItems[data.uuid].docType # "facility" THEN "NotAFacility"
    ELSE IF SourceItems[data.uuid].type # facilityType THEN "WrongFacilityType"
    ELSE IF actorId \notin DOMAIN actors THEN "TypeError"
    ELSE IF SourceItems[data.uuid].level > actors[actorId].level
         THEN "LevelTooLow"
    ELSE "FacilityAdded"

(* item.toObject(): the fields of the source document a facility keeps *)
ToObject(item) ==
    [type |-> item.type, free |-> item.free, defenders |-> item.defenders]

(* the ids the host may give to a created item *)
FreeItemIds(actorId) ==
    {ItemIds[i] : i \in 1..Len(ItemIds)} \ DOMAIN actors[actorId].items

(* this.actor.createEmbeddedDocuments('Item', [object]) under the id the
   host chose *)
WithCreatedItem(actorId, id, object) ==
    [actors EXCEPT ![actorId].items =
        [i \in (DOMAIN @) \cup {id} |-> IF i = id THEN object ELSE @[i]]]

(* the notification a handler ends with, none for a silent return or an
   exception *)
NoticeOf(outcome) ==
    IF outcome \in {"return", "TypeError"} THEN NULL ELSE outcome

(* _onDropFacility on an empty slot of the category facilityType *)
DropFacility(actorId, data, facilityType) ==
    LET outcome == FacilityDropOutcome(actorId, data, facilityType)
    IN  IF outcome = "FacilityAdded"
        THEN /\ \E id \in FreeItemIds(actorId) :
                    actors' = WithCreatedItem(actorId, id,
                                  ToObject(SourceItems[data.uuid]))
             /\ event' = HandlerEvent("dropFacility", actorId, 1,
                                      "FacilityAdded", TRUE)
             /\ UNCHANGED <<detailApps, windows,
                            inFlight, advancement, gameUser, buildingOverrides,
                            visibilitySettings, enabledBastions, bastions,
                            occupantData, resolvable, occupants, viewCall,
                            bastionData>>
             /\ RerenderDetail(actorId)
        ELSE /\ event' = HandlerEvent("dropFacility", actorId, 0,
                                      NoticeOf(outcome), TRUE)
             /\ UNCHANGED <<detailApps, windows,
                            inFlight, advancement, actors, gameUser, buildingOverrides,
                            visibilitySettings, enabledBastions, facilities,
                            bastions, occupantData, resolvable, occupants,
                            viewCall, bastionData>>

(* facility.delete() *)
WithoutItem(actorId, facilityId) ==
    [actors EXCEPT ![actorId].items =
        [i \in (DOMAIN @) \ {facilityId} |-> @[i]]]

(* #onDeleteFacility: the confirmation is shown for an existing facility;
   the item is deleted when it is confirmed *)
DeleteFacility(actorId, facilityId, confirmed) ==
    LET deletes == HasFacility(actorId, facilityId) /\ DialogSaves(confirmed)
    IN  /\ actors' = IF deletes THEN WithoutItem(actorId, facilityId)
                     ELSE actors
        /\ event' = HandlerEvent("deleteFacility", actorId,
                                 IF deletes THEN 1 ELSE 0,
                                 IF deletes THEN "FacilityDeleted" ELSE NULL,
                                 confirmed)
        /\ UNCHANGED <<detailApps, windows,
                       inFlight, advancement, gameUser, buildingOverrides,
                       visibilitySettings, enabledBastions, bastions,
                       occupantData, resolvable, occupants, viewCall,
                       bastionData>>
        /\ IF deletes THEN RerenderDetail(actorId) ELSE UNCHANGED facilities

(* the documents CompendiumBrowser.selectOne offers under the locked
   filters: facilities of the slot's category up to the actor's level *)
BrowserChoices(actorId, facilityType) ==
    {u \in DOMAIN SourceItems :
        /\ SourceItems[u].docType = "facility"
        /\ SourceItems[u].type = facilityType
        /\ SourceItems[u].level <= actors[actorId].level}

(* #onAddFacility: owner or GM only; result is <<>> when the browser was
   closed, else <<uuid>> of the chosen document *)
AddFacility(actorId, facilityType, result) ==
    LET allowed == (actorId \in DOMAIN actors /\ IsOwner(actors[actorId]))
                   \/ UserIsGM(gameUser)
        creates == /\ allowed
                   /\ actorId \in DOMAIN actors
                   /\ result # <<>>
    IN  /\ result # <<>> =>
               /\ actorId \in DOMAIN actors
               /\ result[1] \in BrowserChoices(actorId, facilityType)
        /\ event' = HandlerEvent("addFacility", actorId,
                                 IF creates THEN 1 ELSE 0, NULL, result # <<>>)
        /\ UNCHANGED <<detailApps, windows,
                       inFlight, advancement, gameUser, buildingOverrides,
                       visibilitySettings, enabledBastions, bastions,
                       occupantData, resolvable, occupants, viewCall,
                       bastionData>>
        /\ IF creates
           THEN /\ \E id \in FreeItemIds(actorId) :
                       actors' = WithCreatedItem(actorId, id,
                                     ToObject(SourceItems[result[1]]))
                /\ RerenderDetail(actorId)
           ELSE UNCHANGED <<actors, facilities>>

(* a filter that drops the element after the one at index *)
WithoutNextIndex(value, index) ==
    LET kept == SelectSeq([i \in 1..Len(value) |-> i], LAMBDA i : i # index + 2)
    IN  [k \in 1..Len(kept) |-> value[kept[k]]]

(* currentValue.filter((_, i) => i !== index), index 0-based *)
WithoutIndex(value, index) ==
    LET kept == SelectSeq([i \in 1..Len(value) |-> i], LAMBDA i : i # index + 1)
    IN  [k \in 1..Len(kept) |-> value[kept[k]]]

(* #onDeleteOccupant.  prop is NULL when the clicked element has no
   data-prop; index is <<>> when parseInt gives NaN, else <<i>>.  Past the
   guards the filtered list is written whatever the index. *)
DeleteOccupant(actorId, facilityId, prop, index) ==
    LET found == /\ prop # NULL
                 /\ index # <<>>
                 /\ HasFacility(actorId, facilityId)
    IN  /\ actors' =
               IF found
               THEN WithOccupants(actorId, facilityId,
                        WithoutIndex(ValueOrEmpty(PropertyOrEmpty(
                                         actors[actorId].items[facilityId])),
                                     index[1]))
               ELSE actors
        /\ event' = HandlerEvent("deleteOccupant", actorId,
                                 IF found THEN 1 ELSE 0, NULL, TRUE)
        /\ UNCHANGED <<detailApps, windows,
                       inFlight, advancement, gameUser, buildingOverrides,
                       visibilitySettings, enabledBastions, bastions,
                       occupantData, resolvable, occupants, viewCall,
                       bastionData>>
        /\ IF found THEN RerenderDetail(actorId) ELSE UNCHANGED facilities

(* #onEditDescription: owner or GM only; result is <<>> when the prompt was
   closed (null), else <<text>>.  A GM on a missing actor ends in the read
   of this.actor.system. *)
EditDescription(actorId, result) ==
    LET updates == /\ actorId \in DOMAIN actors
                   /\ (IsOwner(actors[actorId]) \/ UserIsGM(gameUser))
                   /\ DialogSaves(result # <<>>)
    IN  /\ actors' = IF updates
                     THEN [actors EXCEPT ![actorId].description =
                              IF result = <<>> THEN "" ELSE result[1]]
                     ELSE actors
        /\ event' = HandlerEvent("editDescription", actorId,
                                 IF updates THEN 1 ELSE 0, NULL, result # <<>>)
        /\ UNCHANGED <<detailApps, windows,
                       inFlight, advancement, gameUser, buildingOverrides,
                       visibilitySettings, enabledBastions, bastions,
                       occupantData, resolvable, occupants, viewCall,
                       bastionData>>
        /\ IF updates THEN RerenderDetail(actorId) ELSE UNCHANGED facilities

(* Detail windows.  windows lists the BastionDetail instances in the order
   of their construction, a window is named by its position; its state is
   "rendering" from render({force: true}) until the asynchronous render
   completes, "rendered" until it is closed, then "closed". *)
MaxWindows == 3

(* existing?.rendered of openDetail *)
ExistingRendered(actorId) ==
    /\ actorId \in DOMAIN detailApps
    /\ windows[detailApps[actorId]].state = "rendered"

(* detailApps.delete(actorId) *)
WithoutEntry(data, actorId) ==
    [id \in (DOMAIN data) \ {actorId} |-> data[id]]

(* the window part of openDetail: bringToFront of a rendered window, else a
   new BastionDetail registered in detailApps whose render is started *)
OpenDetailWindow(actorId) ==
    IF ExistingRendered(actorId)
    THEN UNCHANGED <<detailApps, windows>>
    ELSE /\ Len(windows) < MaxWindows
         /\ windows' = Append(windows, [actorId |-> actorId,
                                        state |-> "rendering"])
         /\ detailApps' = WithEntry(detailApps, actorId, Len(windows) + 1)

(* no render is in flight: the user waits for a window before the next
   click *)
NoRenderPending ==
    \A w \in 1..Len(windows) : windows[w].state # "rendering"

(* game.bastionManager.openDetail(actorId) *)
OpenDetail(actorId) ==
    /\ OpenDetailWindow(actorId)
    /\ UNCHANGED <<inFlight, advancement, actors, gameUser, buildingOverrides,
                   visibilitySettings, enabledBastions, facilities, bastions,
                   occupantData, resolvable, occupants, viewCall,
                   bastionData, event>>

(* the render started by openDetail completes: _prepareContext has run and
   the window is rendered *)
RenderCompletes(w) ==
    /\ w \in 1..Len(windows)
    /\ windows[w].state = "rendering"
    /\ windows' = [windows EXCEPT ![w].state = "rendered"]
    /\ facilities' = [facilities EXCEPT
                         ![windows[w].actorId] =
                             <<FacilitiesContext(windows[w].actorId)>>]
    /\ UNCHANGED <<detailApps,
                   inFlight, advancement, actors, gameUser, buildingOverrides,
                   visibilitySettings, enabledBastions, bastions,
                   occupantData, resolvable, occupants, viewCall,
                   bastionData, event>>

(* a rendered window is closed: _onClose deletes the entry of its actor id *)
CloseWindow(w) ==
    /\ w \in 1..Len(windows)
    /\ windows[w].state = "rendered"
    /\ windows' = [windows EXCEPT ![w].state = "closed"]
    /\ detailApps' = WithoutEntry(detailApps, windows[w].actorId)
    /\ UNCHANGED <<inFlight, advancement, actors, gameUser, buildingOverrides,
                   visibilitySettings, enabledBastions, facilities, bastions,
                   occupantData, resolvable, occupants, viewCall,
                   bastionData, event>>

(* #onOpenBastion: a warning when canViewBastion is falsy, else openDetail *)
OpenBastion(actorId) ==
    LET viewable == CanViewBastion(actorId, gameUser) = JsTrue
    IN  /\ IF viewable
           THEN OpenDetailWindow(actorId)
           ELSE UNCHANGED <<detailApps, windows>>
        /\ event' = HandlerEvent("openBastion", actorId, 0,
                                 IF viewable THEN NULL ELSE "NoPermission", TRUE)
        /\ UNCHANGED <<inFlight, advancement, actors, gameUser, buildingOverrides,
                       visibilitySettings, enabledBastions, facilities,
                       bastions, occupantData, resolvable, occupants, viewCall,
                       bastionData>>

----------------------------------------------------------------------------
(* DetailSpec: the handlers of the detail view, for every user.  a1 is a
   character of u1 holding one facility; a2 is the id of no actor. *)

(* the defenders property of the facility a1 starts with: missing, without
   list and capacity, of capacity 0, full, over capacity, and with room *)
InitialDefenders ==
    {<<>>,
     <<[value |-> <<>>, max |-> <<>>]>>,
     <<[value |-> <<<<>>>>, max |-> <<0>>]>>,
     <<[value |-> <<<<"uuid-B">>>>, max |-> <<1>>]>>,
     <<[value |-> <<<<"uuid-B", "uuid-A">>>>, max |-> <<1>>]>>,
     <<[value |-> <<<<>>>>, max |-> <<2>>]>>}

(* the data-index of a clicked occupant: not a number, or 0, 1, 2 *)
DeleteIndexes == {<<>>} \cup {<<i>> : i \in 0..2}

(* the texts a user may save as description *)
Descriptions == {"", "Hall"}

(* a world of one player character holding facility f1 *)
OneFacilityWorld(level, defenders) ==
    [a \in FocusActorIds |->
        [type |-> "character", level |-> level,
         items |-> [i \in {"f1"} |->
                       [type |-> "basic", free |-> FALSE,
                        defenders |-> defenders]],
         ownership |-> PlayerOwned,
         description |-> ""]]

DetailInit ==
    /\ advancement = [basic |-> <<>>, special |-> <<>>]
    /\ actors \in {OneFacilityWorld(l, d) :
                      l \in {1, MaxLevel}, d \in InitialDefenders}
    /\ gameUser \in UserIds
    /\ buildingOverrides = <<>>
    /\ visibilitySettings = <<>>
    /\ enabledBastions = <<>>
    /\ bastionData = <<>>
    /\ occupantData = <<>>
    /\ resolvable = {}
    /\ NoResults

DetailNext ==
    \/ \E actorId \in ActorIds, data \in DropPayloads, facilityId \in {"f1"} :
           DropActor(actorId, data, facilityId)
    \/ \E actorId \in ActorIds, data \in DropPayloads, facilityType \in Types :
           DropFacility(actorId, data, facilityType)
    \/ \E actorId \in ActorIds, facilityId \in {"f1"}, confirmed \in BOOLEAN :
           DeleteFacility(actorId, facilityId, confirmed)
    \/ \E actorId \in ActorIds, facilityType \in Types,
          result \in {<<>>} \cup {<<u>> : u \in DOMAIN SourceItems} :
           AddFacility(actorId, facilityType, result)
    \/ \E actorId \in ActorIds, facilityId \in {"f1"},
          prop \in {NULL, "defenders"}, index \in DeleteIndexes :
           DeleteOccupant(actorId, facilityId, prop, index)
    \/ \E actorId \in ActorIds,
          result \in {<<>>} \cup {<<d>> : d \in Descriptions} :
           EditDescription(actorId, result)

DetailSpec == DetailInit /\ [][DetailNext]_vars

----------------------------------------------------------------------------
(* AppSpec: every handler of the overview and of the detail view on one
   small world, for every user: a1 holds one basic facility with room for
   one defender *)

(* the payloads dropped here: a basic facility item and an actor *)
AppPayloads ==
    {[type |-> "Item", uuid |-> "basicItem"],
     [type |-> "Actor", uuid |-> "uuid-A"]}

AppInit ==
    /\ advancement = [basic |-> <<>>, special |-> <<>>]
    /\ actors = OneFacilityWorld(MaxLevel, <<[value |-> <<<<>>>>, max |-> <<1>>]>>)
    /\ gameUser \in UserIds
    /\ buildingOverrides = <<>>
    /\ visibilitySettings = <<>>
    /\ enabledBastions = <<>>
    /\ bastionData = <<>>
    /\ occupantData = <<>>
    /\ resolvable = {}
    /\ NoResults

AppNext ==
    \/ RefreshOverview
    \/ \E actorId \in ActorIds : NoRenderPending /\ OpenBastion(actorId)
    \/ \E w \in 1..MaxWindows : RenderCompletes(w)
    \/ \E actorId \in ActorIds, confirmed \in BOOLEAN, form \in SettingsForms :
           SettingsDialog(actorId, confirmed, form)
    \/ \E confirmed \in BOOLEAN, checked \in SUBSET FocusActorIds :
           ManageBastions(confirmed, checked)
    \/ \E actorId \in FocusActorIds, data \in AppPayloads, facilityId \in {"f1"} :
           DropActor(actorId, data, facilityId)
    \/ \E actorId \in FocusActorIds, data \in AppPayloads :
           DropFacility(actorId, data, "basic")
    \/ \E actorId \in FocusActorIds, facilityId \in {"f1"}, confirmed \in BOOLEAN :
           DeleteFacility(actorId, facilityId, confirmed)
    \/ \E actorId \in FocusActorIds, result \in {<<>>, <<"basicItem">>} :
           AddFacility(actorId, "basic", result)
    \/ \E actorId \in FocusActorIds, facilityId \in {"f1"} :
           DeleteOccupant(actorId, facilityId, "defenders", <<0>>)
    \/ \E actorId \in FocusActorIds, result \in {<<>>, <<"Hall">>} :
           EditDescription(actorId, result)

AppSpec == AppInit /\ [][AppNext]_vars

----------------------------------------------------------------------------
(* Properties of the drop handlers (DetailSpec) *)

(* the length of the defenders list of a facility, 0 without a list *)
DefendersLength(actorId, facilityId) ==
    LET d == actors[actorId].items[facilityId].defenders
    IN  IF d = <<>> \/ d[1].value = <<>> THEN 0 ELSE Len(d[1].value[1])

(* the capacity of the defenders of a facility, 0 when it is missing *)
DefendersCapacity(actorId, facilityId) ==
    LET d == actors[actorId].items[facilityId].defenders
    IN  IF d = <<>> \/ d[1].max = <<>> THEN 0 ELSE d[1].max[1]

(* C14: an actor dropped onto an occupant slot of a facility whose list
   already has at least as many entries as its capacity (a capacity of 0 or
   a missing one included) gives the slot-full warning and no update: the
   list is unchanged. *)
C14_FullSlotWarnsAndKeepsList ==
    [][\A actorId \in ActorIds, data \in DropPayloads, facilityId \in {"f1"} :
          ( /\ DropActor(actorId, data, facilityId)
            /\ data.type = "Actor"
            /\ HasFacility(actorId, facilityId)
            /\ DefendersLength(actorId, facilityId)
                   >= DefendersCapacity(actorId, facilityId) )
          => /\ event'.notice = "SlotFull"
             /\ event'.writes = 0
             /\ actors' = actors]_vars

C14_Witness ==
    /\ event.name = "dropActor"
    /\ event.notice = "SlotFull"
    /\ event.actorId = "a1"
    /\ DOMAIN actors["a1"].items = {"f1"}
    /\ DefendersLength("a1", "f1") = 1
    /\ DefendersCapacity("a1", "f1") = 1

(* the conditions under which a facility drop may create its item *)
FacilityDropAllowed(actorId, data, facilityType) ==
    /\ OwnsActor(actorId, gameUser) \/ UserIsGM(gameUser)
    /\ data.type = "Item"
    /\ data.uuid \in DOMAIN SourceItems
    /\ SourceItems[data.uuid].docType = "facility"
    /\ SourceItems[data.uuid].type = facilityType
    /\ actorId \in DOMAIN actors
    /\ SourceItems[data.uuid].level <= actors[actorId].level

(* C15: a facility drop creates an item only when the current user owns the
   actor or is a GM, the payload is an Item that resolves, the item is a
   facility of the slot's category and its level does not exceed the
   actor's; in every other case it ends without creating anything and the
   actor's items are unchanged.  A creation adds one item and keeps the
   others. *)
C15_FacilityCreatedOnlyWhenAllowed ==
    [][\A actorId \in ActorIds, data \in DropPayloads, facilityType \in Types :
          DropFacility(actorId, data, facilityType) =>
              /\ ~FacilityDropAllowed(actorId, data, facilityType) =>
                     (actors' = actors /\ event'.writes = 0)
              /\ actors' # actors =>
                     /\ FacilityDropAllowed(actorId, data, facilityType)
                     /\ \E id \in (DOMAIN actors'[actorId].items)
                                      \ DOMAIN actors[actorId].items :
                            actors' = WithCreatedItem(actorId, id,
                                          ToObject(SourceItems[data.uuid]))]_vars

C15_Witness ==
    /\ event.name = "dropFacility"
    /\ event.notice = "FacilityAdded"
    /\ event.user = "u1"
    /\ DOMAIN actors["a1"].items = {"f1", "f2"}
    /\ \E id \in {"f1", "f2"} : actors["a1"].items[id].type = "special"

----------------------------------------------------------------------------
(* Properties of the handlers taken together (AppSpec) *)

(* C16: a delete-facility confirmation, an edit-description prompt, a
   bastion settings dialog or a manage-bastions dialog closed without
   confirming issues no write: the actors (their facilities and
   descriptions) and the four settings mappings are unchanged. *)
C16_DismissedDialogChangesNothing ==
    [][( /\ event'.name \in {"deleteFacility", "editDescription",
                             "settingsDialog", "manageBastions"}
         /\ ~event'.confirmed )
       => /\ event'.writes = 0
          /\ UNCHANGED <<actors, bastionData, buildingOverrides,
                         visibilitySettings, enabledBastions>>]_vars

C16_Witness ==
    /\ event.name = "deleteFacility"
    /\ ~event.confirmed
    /\ event.user = "u1"
    /\ HasFacility("a1", "f1")
    /\ DefendersLength("a1", "f1") = 1
    /\ actors["a1"].description = "Hall"
    /\ bastionData # <<>>

(* C17 as stated: no user action issues two or more writes to persisted
   state. *)
C17_AtMostOneWritePerAction == event.writes <= 1

(* C17, amended: every user action but the Save of the bastion settings
   dialog issues at most one write to persisted state; that Save issues
   two, to the bastion data and the visibility mapping, and a third, to the
   building overrides, when the user is a GM. *)
C17_OneWriteButForSettingsSave ==
    /\ event.name # "settingsDialog" => event.writes <= 1
    /\ event.name = "settingsDialog" =>
           /\ event.writes \in {0, 2, 3}
           /\ event.writes = 3 <=>
                  /\ event.confirmed
                  /\ event.actorId \in DOMAIN actors
                  /\ UserIsGM(event.user)
           /\ event.writes = 2 <=>
                  /\ event.confirmed
                  /\ OwnsActor(event.actorId, event.user)
                  /\ ~UserIsGM(event.user)

C17_Witness ==
    /\ event.name = "settingsDialog"
    /\ event.writes = 3
    /\ bastionData # <<>>
    /\ visibilitySettings # <<>>
    /\ buildingOverrides # <<>>

----------------------------------------------------------------------------
(* Properties of the detail handlers, continued (DetailSpec) *)

(* the defenders list of a facility, empty without a list *)
DefendersList(actorId, facilityId) ==
    LET d == actors[actorId].items[facilityId].defenders
    IN  IF d = <<>> \/ d[1].value = <<>> THEN <<>> ELSE d[1].value[1]

(* the list without its element at 0-based position i, order kept *)
ListWithout(list, i) ==
    [k \in 1..(Len(list) - 1) |-> IF k <= i THEN list[k] ELSE list[k + 1]]

(* C21: delete-occupant with index i inside the list stores the old list
   without its element i, the others in their order; with an index outside
   the list the stored contents are unchanged; with a missing facility,
   property name or a non-numeric index nothing is written. *)
C21_DeleteOccupantRemovesElementI ==
    [][\A actorId \in ActorIds, prop \in {NULL, "defenders"},
          index \in DeleteIndexes :
          DeleteOccupant(actorId, "f1", prop, index) =>
              IF prop = NULL \/ index = <<>> \/ ~HasFacility(actorId, "f1")
              THEN actors' = actors /\ event'.writes = 0
              ELSE /\ HasFacility(actorId, "f1")'
                   /\ DefendersList(actorId, "f1")' =
                          IF index[1] < Len(DefendersList(actorId, "f1"))
                          THEN ListWithout(DefendersList(actorId, "f1"), index[1])
                          ELSE DefendersList(actorId, "f1")]_vars

C21_Witness ==
    /\ event.name = "deleteOccupant"
    /\ event.writes = 1
    /\ HasFacility("a1", "f1")
    /\ DefendersList("a1", "f1") = <<"uuid-A">>
    /\ DefendersCapacity("a1", "f1") = 1

----------------------------------------------------------------------------
(* WindowSpec: openDetail calls, render completions and window closes on
   one client, in every order.  Both actors exist and the calls are made
   through the API, so every actor id is accepted. *)

WindowInit ==
    /\ advancement = [basic |-> <<>>, special |-> <<>>]
    /\ actors = OneFacilityWorld(MaxLevel, <<[value |-> <<<<>>>>, max |-> <<1>>]>>)
    /\ gameUser \in UserIds
    /\ buildingOverrides = <<>>
    /\ visibilitySettings = <<>>
    /\ enabledBastions = <<>>
    /\ bastionData = <<>>
    /\ occupantData = <<>>
    /\ resolvable = {}
    /\ NoResults

WindowNext ==
    \/ \E actorId \in DOMAIN actors : OpenDetail(actorId)
    \/ \E w \in 1..MaxWindows : RenderCompletes(w)
    \/ \E w \in 1..MaxWindows : CloseWindow(w)

WindowSpec == WindowInit /\ [][WindowNext]_vars

(* the windows of an actor id that were created and are not yet closed *)
LiveWindows(actorId) ==
    {w \in 1..Len(windows) :
        windows[w].actorId = actorId /\ windows[w].state # "closed"}

(* C22: at every moment there is at most one live BastionDetail window per
   actor id, and whenever there is one detailApps maps the actor id to it *)
C22_OneLiveWindowPerActor ==
    \A actorId \in ActorIds :
        /\ Cardinality(LiveWindows(actorId)) <= 1
        /\ \A w \in LiveWindows(actorId) :
               actorId \in DOMAIN detailApps /\ detailApps[actorId] = w

----------------------------------------------------------------------------
(* RaceSpec: occupant drops onto the defenders of f1 whose reads and
   updates interleave in every order *)

RaceDefenders ==
    {<<[value |-> <<<<>>>>, max |-> <<MaxCapacity>>]>>,
     <<[value |-> <<<<"uuid-C">>>>, max |-> <<MaxCapacity>>]>>,
     <<[value |-> <<<<>>>>, max |-> <<1>>]>>}

RacePayloads ==
    {[type |-> "Actor", uuid |-> u] : u \in Uuids}
    \cup {[type |-> "Item", uuid |-> "basicItem"]}

RaceInit ==
    /\ advancement = [basic |-> <<>>, special |-> <<>>]
    /\ actors \in {OneFacilityWorld(MaxLevel, d) : d \in RaceDefenders}
    /\ gameUser \in UserIds
    /\ buildingOverrides = <<>>
    /\ visibilitySettings = <<>>
    /\ enabledBastions = <<>>
    /\ bastionData = <<>>
    /\ occupantData = <<>>
    /\ resolvable = {}
    /\ NoResults

RaceNext ==
    \/ \E actorId \in FocusActorIds, data \in RacePayloads :
           StartDropActor(actorId, data, "f1")
    \/ \E k \in 1..MaxDrops : CompleteUpdate(k)

RaceSpec == RaceInit /\ [][RaceNext]_vars

(* the references of a list *)
ReferencesOf(list) == {list[i] : i \in 1..Len(list)}

(* C23: once every update issued by an accepted drop has completed, the
   stored list holds the reference of every accepted drop *)
C23_NoAcceptedDropLost ==
    (\A k \in 1..Len(inFlight) : inFlight[k].done) =>
        \A k \in 1..Len(inFlight) :
            inFlight[k].uuid \in
                ReferencesOf(DefendersList(inFlight[k].actorId,
                                           inFlight[k].facilityId))

----------------------------------------------------------------------------
(* BuildSpec: facilities added and dropped through the rendered detail
   view of a1, from every world whose counts are within their maxima.  The
   level and the overrides stay as they are. *)

(* the empty slots of a category the rendered view of actorId shows; the
   drop listeners are bound to these *)
RenderedSlots(actorId, facilityType) ==
    IF facilities[actorId] = <<>> THEN 0
    ELSE Len(facilities[actorId][1][facilityType].available)

(* value <= max in the context of actorId for the category *)
WithinMax(actorId, facilityType) ==
    FacilitiesContext(actorId)[facilityType].value
        <= FacilitiesContext(actorId)[facilityType].max

BuildOverrides == {<<>>, [a1 |-> [basic |-> 0, special |-> MaxOverride]]}

BuildInit ==
    /\ advancement \in AdvancementTables
    /\ actors \in {[a \in FocusActorIds |->
                       [type |-> "character", level |-> l,
                        items |-> [i \in DOMAIN it |->
                                      [type |-> it[i].type, free |-> it[i].free,
                                       defenders |-> <<>>]],
                        ownership |-> PlayerOwned,
                        description |-> ""]] :
                   l \in {1, MaxLevel}, it \in ItemSets}
    /\ gameUser \in UserIds
    /\ buildingOverrides \in BuildOverrides
    /\ visibilitySettings = <<>>
    /\ enabledBastions = <<>>
    /\ bastionData = <<>>
    /\ occupantData = <<>>
    /\ resolvable = {}
    /\ NoResults
    /\ \A a \in FocusActorIds, t \in Types : WithinMax(a, t)

BuildNext ==
    \/ \E actorId \in FocusActorIds : RenderDetail(actorId)
    \/ \E actorId \in FocusActorIds, t \in Types,
          u \in {"basicItem", "specialItem", "weaponItem"} :
           /\ RenderedSlots(actorId, t) > 0
           /\ DropFacility(actorId, [type |-> "Item", uuid |-> u], t)
    \/ \E actorId \in FocusActorIds, t \in Types,
          result \in {<<>>, <<"basicItem">>, <<"specialItem">>} :
           /\ RenderedSlots(actorId, t) > 0
           /\ AddFacility(actorId, t, result)

BuildSpec == BuildInit /\ [][BuildNext]_vars

(* C24: in each category the value of the detail view never exceeds its
   max while facilities are added and dropped *)
C24_ValueNeverExceedsMax ==
    \A actorId \in FocusActorIds, t \in Types : WithinMax(actorId, t)

----------------------------------------------------------------------------
(* The overview card and the detail view of one actor (SlotsSpec) *)

(* C25: the counts and maxima on the card of every actor shown in the
   overview equal the value and max the detail view of the same actor
   shows for the same category *)
C25_CardEqualsDetailView ==
    bastions # <<>> =>
        \A i \in 1..Len(bastions[1]) :
            LET card == bastions[1][i]
            IN  facilities[card.actorId] # <<>> =>
                    LET view == facilities[card.actorId][1]
                    IN  /\ card.basicCount = view.basic.value
                        /\ card.basicMax = view.basic.max
                        /\ card.specialCount = view.special.value
                        /\ card.specialMax = view.special.max

----------------------------------------------------------------------------
(* The owner guard of the detail handlers (DetailSpec) *)

(* C26: a handler of the detail view run by a user who neither owns the
   actor nor is a GM issues no mutation and leaves the actors unchanged *)
C26_OnlyOwnerOrGMMutates ==
    [][\A actorId \in FocusActorIds :
          (event'.actorId = actorId /\ ~OwnsActor(actorId, gameUser)) =>
              (event'.writes = 0 /\ actors' = actors)]_vars

----------------------------------------------------------------------------
(* ManageSpec: the enabled flags, written through setBastionEnabled and
   through the manage-bastions dialog, for every user.  a1 is a character
   claimed by u1; a2 is missing, an NPC, or a character claimed by u2. *)

ManageInit ==
    /\ advancement = [basic |-> <<>>, special |-> <<>>]
    /\ \E second \in SecondActors :
          LET first == [type |-> "character", level |-> 1, items |-> <<>>,
                        ownership |-> PlayerOwned]
          IN  actors = IF second = <<>> THEN [a \in {"a1"} |-> first]
                       ELSE [a \in ActorIds |->
                                IF a = "a1" THEN first ELSE second[1]]
    /\ gameUser \in UserIds
    /\ buildingOverrides = <<>>
    /\ visibilitySettings = <<>>
    /\ enabledBastions = <<>>
    /\ bastionData = <<>>
    /\ occupantData = <<>>
    /\ resolvable = {}
    /\ NoResults

ManageNext ==
    \/ \E actorId \in ActorIds, isEnabled \in BOOLEAN :
           SetBastionEnabled(actorId, isEnabled)
    \/ \E confirmed \in BOOLEAN, checked \in SUBSET ActorIds :
           ManageBastions(confirmed, checked)

ManageSpec == ManageInit /\ [][ManageNext]_vars

(* C27: a save of the manage-bastions dialog leaves isBastionEnabled as it
   was for every actor the dialog does not list *)
C27_SaveKeepsUnlistedActors ==
    [][(event'.name = "manageBastions" /\ event'.writes = 1) =>
          \A id \in (DOMAIN actors) \ ManagedCharacters :
              IsBastionEnabled(id)' = IsBastionEnabled(id)]_vars

====
